---- MODULE Spec2Model ----
(***************************************************************************)
(* Photo editor: the image edit history, the generation-request lifecycle  *)
(* and the credit/session gate of views/EditorView.tsx and App.tsx, and    *)
(* the response classification of services/geminiService.ts.               *)
(***************************************************************************)
EXTENDS Integers, Sequences, FiniteSets, Bags, TLC

\* ------------------------------------------------------------------ bounds

\* Number of File objects (uploads, crops, generated images) an EditorView creates.
MaxImages == 3
\* Number of generation calls in flight at once.
MaxCalls == 2

\* ------------------------------------------------------------ JS values

\* null / undefined of a string-valued field.
None == "none"
\* null of a message-valued field (error: string | null).
NoError == << >>
\* history[historyIndex] ?? null, when there is no such element. A File is modelled
\* by its identity, a positive number.
NoImage == 0

Max(a, b) == IF a >= b THEN a ELSE b

\* ------------------------------------------------------------- App.tsx

UserIds == {"u001", "u002", "u003", "u004"}

AdminCredits == 999
BobCredits == 15

initialUsers ==
  [u \in UserIds |->
     CASE u = "u001" -> [email |-> "alice@example.com", password |-> "adminpassword",
                         credits |-> AdminCredits, isEnabled |-> TRUE, role |-> "admin"]
       [] u = "u002" -> [email |-> "bob@example.com", password |-> "password123",
                         credits |-> BobCredits, isEnabled |-> TRUE, role |-> "user"]
       [] u = "u003" -> [email |-> "charlie@example.com", password |-> "password123",
                         credits |-> 0, isEnabled |-> TRUE, role |-> "user"]
       [] u = "u004" -> [email |-> "diana@example.com", password |-> "password123",
                         credits |-> 1, isEnabled |-> FALSE, role |-> "user"]]

VARIABLES
  users,          \* App: users, by id
  currentUserId,  \* App: currentUserId (None when logged out)
  hash,           \* window.location.hash without '#'
  route,          \* App: route
  appError,       \* App: error
  showPaywall,    \* App: showPaywall
  gateReturn,     \* value returned by a direct call of checkUserCanGenerate
  apiResponse,    \* a response of the endpoint handed to one of the generation functions
  apiContext,     \* the generation function called with it (None before the call)
  apiResult,      \* what that call returned or threw
  lastOp,         \* the history operation called last when they are called directly
  history,        \* EditorView: history
  historyIndex,   \* EditorView: historyIndex
  isLoading,      \* EditorView: isLoading
  error,          \* EditorView: error
  completedCrop,  \* EditorView: completedCrop is set
  calls,          \* the invocations of handleGenericGeneration suspended at their await
  nextImg,        \* identity of the next File object the mounted EditorView creates
  lastUpload,     \* the File the mounted EditorView was last given by handleImageUpload
  prompt,         \* EditorView: prompt, a sequence of characters
  editHotspot,    \* EditorView: editHotspot is set
  pendingTransactions,  \* App: pendingTransactions
  renderedTransactions, \* the pendingTransactions of the render whose handlers are called
  generated,      \* by user, the number of that user's generation calls that succeeded
  canvas          \* the source's size and the canvas the last call composed of it (expand)

appVars == <<users, currentUserId, hash, route, appError, showPaywall>>
editorVars == <<history, historyIndex, isLoading, error, completedCrop>>
\* The variables only the direct calls of the functions use.
sliceVars == <<renderedTransactions, generated, canvas>>
directVars == <<gateReturn, apiResponse, apiContext, apiResult, lastOp, pendingTransactions,
                sliceVars>>
vars == <<users, currentUserId, hash, route, appError, showPaywall, gateReturn, apiResponse,
          apiContext, apiResult, lastOp, history, historyIndex, isLoading, error,
          completedCrop, calls, nextImg, lastUpload, prompt, editHotspot,
          pendingTransactions, renderedTransactions, generated, canvas>>

\* const currentUser = users.find(u => u.id === currentUserId)
HasCurrentUser(us, uid) == uid \in DOMAIN us

\* updateUserCredits without Math.max.
updateUserCreditsUnclamped(us, userId, creditChange) ==
  [u \in DOMAIN us |->
     IF u = userId
     THEN [us[u] EXCEPT !.credits = us[u].credits + creditChange]
     ELSE us[u]]

\* updateUserCredits(userId, creditChange), as the new users table
updateUserCredits(us, userId, creditChange) ==
  [u \in DOMAIN us |->
     IF u = userId
     THEN [us[u] EXCEPT !.credits = Max(0, us[u].credits + creditChange)]
     ELSE us[u]]

MsgNotLoggedIn == <<"You must be logged in to generate images.">>
MsgDisabled == <<"Your account has been disabled by an administrator.">>
MsgInvalidLogin == <<"Invalid email or password.">>

\* The gate without the administrators' exemption from the balance check.
checkUserCanGenerateNoExemption(us, uid, err, paywall) ==
  IF ~HasCurrentUser(us, uid)
  THEN [ret |-> FALSE, error |-> MsgNotLoggedIn, showPaywall |-> paywall]
  ELSE IF ~us[uid].isEnabled
  THEN [ret |-> FALSE, error |-> MsgDisabled, showPaywall |-> paywall]
  ELSE IF us[uid].credits <= 0
  THEN [ret |-> FALSE, error |-> err, showPaywall |-> TRUE]
  ELSE [ret |-> TRUE, error |-> err, showPaywall |-> paywall]

\* checkUserCanGenerate(): the value returned and what it sets.
checkUserCanGenerate(us, uid, err, paywall) ==
  IF ~HasCurrentUser(us, uid)
  THEN [ret |-> FALSE, error |-> MsgNotLoggedIn, showPaywall |-> paywall]
  ELSE IF ~us[uid].isEnabled
  THEN [ret |-> FALSE, error |-> MsgDisabled, showPaywall |-> paywall]
  ELSE IF us[uid].role # "admin" /\ us[uid].credits <= 0
  THEN [ret |-> FALSE, error |-> err, showPaywall |-> TRUE]
  ELSE [ret |-> TRUE, error |-> err, showPaywall |-> paywall]

\* renderAppContent without the role in its test of the route.
DashboardShownAnyRole(us, uid, r) == HasCurrentUser(us, uid) /\ r = "admin"

\* renderAppContent: which view is mounted.
DashboardShown(us, uid, r) ==
  HasCurrentUser(us, uid) /\ r = "admin" /\ us[uid].role = "admin"
EditorShown(us, uid, r) ==
  HasCurrentUser(us, uid) /\ ~DashboardShown(us, uid, r)

\* "Secure the admin route" effect, run after a render with route r and user uid:
\* the hash it leaves.
AdminRouteEffect(us, uid, r, h) ==
  IF r = "admin" /\ (~HasCurrentUser(us, uid) \/ us[uid].role # "admin")
  THEN ""
  ELSE h

\* ------------------------------------------------ services/geminiService.ts

\* Largest number of candidates in a response, of parts in a candidate, and of
\* characters in the response's text.
MaxCandidates == 2
MaxParts == 2
MaxText == 1

\* A part of a candidate's content: an image part carries inlineData.
TextPart == [hasInlineData |-> FALSE, mimeType |-> "", data |-> ""]
PngPart == [hasInlineData |-> TRUE, mimeType |-> "image/png", data |-> "iVBORw0KGgo="]
\* An image part whose data is not base64.
BadPart == [hasInlineData |-> TRUE, mimeType |-> "image/png", data |-> "%%%"]

\* promptFeedback absent, or present without a blockReason.
NoFeedback == [blockReason |-> "", blockReasonMessage |-> ""]

SeqsUpTo(S, n) == UNION {[1..k -> S] : k \in 0..n}

\* JS truthiness of a string | undefined.
Truthy(s) == s # ""

\* String.prototype.trim on a sequence of characters.
RECURSIVE TrimStart(_)
TrimStart(s) == IF s # << >> /\ Head(s) = " " THEN TrimStart(Tail(s)) ELSE s
RECURSIVE TrimEnd(_)
TrimEnd(s) ==
  IF s # << >> /\ s[Len(s)] = " " THEN TrimEnd(SubSeq(s, 1, Len(s) - 1)) ELSE s
Trim(s) == TrimEnd(TrimStart(s))

\* Array.prototype.find(part => part.inlineData): index of the first image part, 0 if none.
RECURSIVE FindInlineFrom(_, _)
FindInlineFrom(parts, i) ==
  IF i > Len(parts) THEN 0
  ELSE IF parts[i].hasInlineData THEN i
  ELSE FindInlineFrom(parts, i + 1)
FindInline(parts) == FindInlineFrom(parts, 1)

\* return value / thrown Error of a call
Return(v) == [ok |-> TRUE, value |-> v]
Throw(msg) == [ok |-> FALSE, value |-> msg]

\* The classification that looks for the image before the block reason.
handleApiResponseImageFirst(response, context) ==
  LET parts == IF Len(response.candidates) >= 1 THEN response.candidates[1].parts ELSE << >>
      i == FindInline(parts)
  IN IF i # 0
     THEN Return(<<"data:", parts[i].mimeType, ";base64,", parts[i].data>>)
     ELSE Throw(<<"Request was blocked. Reason: ", response.promptFeedback.blockReason, ". ",
                  response.promptFeedback.blockReasonMessage>>)

\* The classification that takes every finish reason, STOP too, for abnormal.
handleApiResponseAnyFinish(response, context) ==
  IF Truthy(response.promptFeedback.blockReason)
  THEN Throw(<<"Request was blocked. Reason: ", response.promptFeedback.blockReason, ". ",
               response.promptFeedback.blockReasonMessage>>)
  ELSE
    LET parts == IF Len(response.candidates) >= 1 THEN response.candidates[1].parts ELSE << >>
        i == FindInline(parts)
        finishReason ==
          IF Len(response.candidates) >= 1 THEN response.candidates[1].finishReason ELSE ""
    IN IF i # 0
       THEN Return(<<"data:", parts[i].mimeType, ";base64,", parts[i].data>>)
       ELSE IF Truthy(finishReason)
       THEN Throw(<<"Image generation for ", context, " stopped unexpectedly. Reason: ",
                    finishReason, ". This often relates to safety settings.">>)
       ELSE Throw(<<"The AI model did not return an image for the ", context, ". ">>)

\* handleApiResponse(response, context)
handleApiResponse(response, context) ==
  IF Truthy(response.promptFeedback.blockReason)
  THEN Throw(<<"Request was blocked. Reason: ", response.promptFeedback.blockReason, ". ",
               response.promptFeedback.blockReasonMessage>>)
  ELSE
    LET parts == IF Len(response.candidates) >= 1 THEN response.candidates[1].parts ELSE << >>
        i == FindInline(parts)
        finishReason ==
          IF Len(response.candidates) >= 1 THEN response.candidates[1].finishReason ELSE ""
        textFeedback == Trim(response.text)
    IN IF i # 0
       THEN Return(<<"data:", parts[i].mimeType, ";base64,", parts[i].data>>)
       ELSE IF Truthy(finishReason) /\ finishReason # "STOP"
       THEN Throw(<<"Image generation for ", context, " stopped unexpectedly. Reason: ",
                    finishReason, ". This often relates to safety settings.">>)
       ELSE Throw(<<"The AI model did not return an image for the ", context, ". ">> \o
                  (IF textFeedback # << >>
                   THEN <<"The model responded with text: \"">> \o textFeedback \o <<"\"">>
                   ELSE <<"This can happen due to safety filters or if the request is too complex. Please try rephrasing your prompt to be more direct.">>))

\* The five generation functions, by the context each passes to handleApiResponse.
Operations == {"edit", "filter", "adjust", "combine", "expand"}
Context(op) ==
  CASE op = "edit" -> "edit"
    [] op = "filter" -> "filter"
    [] op = "adjust" -> "adjustment"
    [] op = "combine" -> "combine"
    [] op = "expand" -> "expand"

\* generateEditedImage, generateFilteredImage, generateAdjustedImage,
\* generateCombinedImage, generateExpandedImage: what the call resolves to for a
\* response of the endpoint.
generateImage(op, response) == handleApiResponse(response, Context(op))

\* A rejected generateContent call, a failed file read or canvas conversion.
TransportError == Throw(<<"Failed to fetch">>)

\* generateExpandedImage, step 2: the larger canvas. Lengths that JavaScript holds as
\* numbers with a fraction (newWidth, drawX, ...) are kept doubled, in half pixels;
\* canvas.width and canvas.height are unsigned long attributes, and the assignment
\* of a number to them drops its fraction.
MaxSide == 3
Directions == {"top", "bottom", "left", "right"}
ToUnsignedLong(x2) == x2 \div 2
composeCanvas(direction, naturalWidth, naturalHeight) ==
  LET newWidth2 == IF direction \in {"left", "right"}
                   THEN 2 * naturalWidth + naturalWidth
                   ELSE 2 * naturalWidth
      newHeight2 == IF direction \in {"top", "bottom"}
                    THEN 2 * naturalHeight + naturalHeight
                    ELSE 2 * naturalHeight
  IN [direction |-> direction, naturalWidth |-> naturalWidth, naturalHeight |-> naturalHeight,
      width |-> ToUnsignedLong(newWidth2), height |-> ToUnsignedLong(newHeight2),
      drawX2 |-> IF direction = "left" THEN naturalWidth ELSE 0,
      drawY2 |-> IF direction = "top" THEN naturalHeight ELSE 0]

\* ------------------------------------------------ utils/fileHelpers.ts

Base64Payloads == {"iVBORw0KGgo="}

\* dataURLtoFile(dataurl, filename): the File, or the Error of a payload that
\* cannot be decoded.
dataURLtoFile(dataurl, filename) ==
  IF Len(dataurl) = 4 /\ dataurl[1] = "data:" /\ dataurl[2] # "" /\ dataurl[3] = ";base64,"
     /\ dataurl[4] \in Base64Payloads
  THEN Return(filename)
  ELSE Throw(<<"Failed to execute 'atob': The string to be decoded is not correctly encoded.">>)

\* addImageToHistory(newImage, history, historyIndex, setHistory, setHistoryIndex):
\* the history and index it sets.
addImageToHistory(newImage, h, i) ==
  [history |-> Append(SubSeq(h, 1, i + 1), newImage),
   historyIndex |-> Len(Append(SubSeq(h, 1, i + 1), newImage)) - 1]


\* ------------------------------------------------ views/EditorView.tsx

\* Responses of the endpoint to the editor's requests.
Response(feedback, candidates, text) ==
  [promptFeedback |-> feedback, candidates |-> candidates, text |-> text]
Candidate(parts, finishReason) == [parts |-> parts, finishReason |-> finishReason]
EditorResponses ==
  { Response(NoFeedback, <<Candidate(<<PngPart>>, "STOP")>>, << >>),
    Response(NoFeedback, <<Candidate(<<BadPart>>, "STOP")>>, << >>),
    Response([blockReason |-> "SAFETY", blockReasonMessage |-> ""],
             <<Candidate(<<PngPart>>, "STOP")>>, << >>) }

\* calls is the bag of the invocations of handleGenericGeneration suspended at their
\* await. Each is what its closure holds: the history, historyIndex and currentUser
\* of the render it was made in. mounted: the EditorView it belongs to is still
\* mounted.
Call(op, h, i, uid) ==
  [op |-> op, history |-> h, historyIndex |-> i, userId |-> uid, mounted |-> TRUE]
\* React ignores the state updates of an unmounted component: the history and
\* historyIndex in the closure of such a call are read to no effect.
Orphan(call) ==
  [call EXCEPT !.history = << >>, !.historyIndex = -1, !.mounted = FALSE]
InFlight == BagToSet(calls)
One(call) == SetToBag({call})

currentImage ==
  IF historyIndex >= 0 /\ historyIndex < Len(history) THEN history[historyIndex + 1] ELSE NoImage
canUndo == historyIndex > 0
canRedo == historyIndex < Len(history) - 1

EditorMounted == EditorShown(users, currentUserId, route)
\* What EditorView renders: the error screen with "Try Again", the StartScreen, or
\* the editor with its image, panels and buttons.
ErrorScreen == EditorMounted /\ error # NoError
StartScreen == EditorMounted /\ error = NoError /\ currentImage = NoImage
EditorScreen == EditorMounted /\ error = NoError /\ currentImage # NoImage
\* imgRef.current: the <img> of the editor screen.
ImgRefPresent == EditorScreen

\* handleGenericGeneration up to its await: permitted is the outcome of
\* checkUserCanGenerate() && currentUser.
StartGeneration(op, gate, permitted) ==
  /\ appError' = gate.error
  /\ showPaywall' = gate.showPaywall
  /\ IF ~permitted
     THEN UNCHANGED <<isLoading, error, calls>>
     ELSE /\ isLoading' = TRUE
          /\ error' = NoError
          /\ calls' = calls (+) One(Call(op, history, historyIndex, currentUserId))
  /\ UNCHANGED <<users, currentUserId, hash, route, directVars, history, historyIndex,
                 completedCrop, nextImg,
                 lastUpload, prompt, editHotspot>>

\* handleGenericGeneration without its first line, the gate.
handleGenericGenerationUngated(op) ==
  StartGeneration(op, checkUserCanGenerate(users, currentUserId, appError, showPaywall), TRUE)

handleGenericGeneration(op) ==
  LET gate == checkUserCanGenerate(users, currentUserId, appError, showPaywall)
  IN StartGeneration(op, gate, gate.ret /\ HasCurrentUser(users, currentUserId))

\* handleApplyFilter, handleApplyAdjustment, handleExpandImage, and CombinePanel's
\* handleApply in front of handleCombineImages.
\* The panels' buttons are disabled while isLoading.
Submit(op) ==
  /\ EditorScreen
  /\ ~isLoading
  /\ BagCardinality(calls) < MaxCalls
  /\ IF currentImage = NoImage
     THEN IF op = "combine"
          THEN UNCHANGED vars
          ELSE /\ error' = <<"No image loaded.">>
               /\ UNCHANGED <<appVars, directVars, history, historyIndex, isLoading,
                              completedCrop, calls, nextImg,
                 lastUpload, prompt, editHotspot>>
     ELSE handleGenericGeneration(op)

\* handleGenericGeneration's commit with handleGenerate keeping its hotspot.
CommitKeepsHotspot(call, newImageFile) ==
  LET next == addImageToHistory(newImageFile, call.history, call.historyIndex)
  IN /\ IF call.mounted
        THEN /\ nextImg <= MaxImages
             /\ history' = next.history
             /\ historyIndex' = next.historyIndex
             /\ isLoading' = FALSE
             /\ nextImg' = nextImg + 1
             /\ editHotspot' = editHotspot
        ELSE UNCHANGED <<history, historyIndex, isLoading, nextImg, editHotspot>>
     /\ users' = IF users[call.userId].role # "admin"
                 THEN updateUserCredits(users, call.userId, -1)
                 ELSE users
     /\ generated' = IF users[call.userId].role # "admin"
                     THEN [generated EXCEPT ![call.userId] = @ + 1]
                     ELSE generated
     /\ calls' = calls (-) One(call)
     /\ UNCHANGED <<currentUserId, hash, route, appError, showPaywall, gateReturn, apiResponse,
                    apiContext, apiResult, lastOp, pendingTransactions, renderedTransactions,
                    canvas, error, completedCrop, lastUpload, prompt>>

\* handleGenericGeneration's commit debiting whoever is logged in when it resolves.
CommitDebitsCurrentUser(call, newImageFile) ==
  LET next == addImageToHistory(newImageFile, call.history, call.historyIndex)
      payer == IF HasCurrentUser(users, currentUserId) THEN currentUserId ELSE call.userId
  IN /\ IF call.mounted
        THEN /\ nextImg <= MaxImages
             /\ history' = next.history
             /\ historyIndex' = next.historyIndex
             /\ isLoading' = FALSE
             /\ nextImg' = nextImg + 1
             /\ editHotspot' = IF call.op = "edit" THEN FALSE ELSE editHotspot
        ELSE UNCHANGED <<history, historyIndex, isLoading, nextImg, editHotspot>>
     /\ users' = IF users[call.userId].role # "admin"
                 THEN updateUserCredits(users, payer, -1)
                 ELSE users
     /\ generated' = IF users[call.userId].role # "admin"
                     THEN [generated EXCEPT ![call.userId] = @ + 1]
                     ELSE generated
     /\ calls' = calls (-) One(call)
     /\ UNCHANGED <<currentUserId, hash, route, appError, showPaywall, gateReturn, apiResponse,
                    apiContext, apiResult, lastOp, pendingTransactions, renderedTransactions,
                    canvas, error, completedCrop, lastUpload, prompt>>

\* handleGenericGeneration after its await, the call having resolved to imageUrl and
\* the File decoded: the rest of the try block, and finally.
Commit(call, newImageFile) ==
  LET next == addImageToHistory(newImageFile, call.history, call.historyIndex)
  IN /\ IF call.mounted
        THEN /\ nextImg <= MaxImages
             /\ history' = next.history
             /\ historyIndex' = next.historyIndex
             /\ isLoading' = FALSE
             /\ nextImg' = nextImg + 1
             /\ editHotspot' = IF call.op = "edit" THEN FALSE ELSE editHotspot
        ELSE UNCHANGED <<history, historyIndex, isLoading, nextImg, editHotspot>>
     /\ users' = IF users[call.userId].role # "admin"
                 THEN updateUserCredits(users, call.userId, -1)
                 ELSE users
     /\ generated' = IF users[call.userId].role # "admin"
                     THEN [generated EXCEPT ![call.userId] = @ + 1]
                     ELSE generated
     /\ calls' = calls (-) One(call)
     /\ UNCHANGED <<currentUserId, hash, route, appError, showPaywall, gateReturn, apiResponse,
                    apiContext, apiResult, lastOp, pendingTransactions, renderedTransactions,
                    canvas, error, completedCrop, lastUpload, prompt>>

\* A catch block that issues the call again.
FailRetries(call, errorMessage) ==
  /\ IF call.mounted
     THEN error' = <<"Operation failed. ">> \o errorMessage
     ELSE UNCHANGED error
  /\ UNCHANGED <<appVars, directVars, history, historyIndex, isLoading, completedCrop, calls,
                 nextImg, lastUpload, prompt, editHotspot>>

\* The catch block without the finally block.
FailStaysLoading(call, errorMessage) ==
  /\ IF call.mounted
     THEN error' = <<"Operation failed. ">> \o errorMessage
     ELSE UNCHANGED error
  /\ calls' = calls (-) One(call)
  /\ UNCHANGED <<appVars, directVars, history, historyIndex, isLoading, completedCrop, nextImg,
                 lastUpload, prompt, editHotspot>>

\* A catch block reached after the debit.
FailDebits(call, errorMessage) ==
  /\ IF call.mounted
     THEN /\ error' = <<"Operation failed. ">> \o errorMessage
          /\ isLoading' = FALSE
     ELSE UNCHANGED <<error, isLoading>>
  /\ users' = updateUserCredits(users, call.userId, -1)
  /\ calls' = calls (-) One(call)
  /\ UNCHANGED <<currentUserId, hash, route, appError, showPaywall, directVars, history,
                 historyIndex, completedCrop, nextImg,
                 lastUpload, prompt, editHotspot>>

\* handleGenericGeneration after its await, the call or the decoding having thrown:
\* the catch block, and finally.
Fail(call, errorMessage) ==
  /\ IF call.mounted
     THEN /\ error' = <<"Operation failed. ">> \o errorMessage
          /\ isLoading' = FALSE
     ELSE UNCHANGED <<error, isLoading>>
  /\ calls' = calls (-) One(call)
  /\ UNCHANGED <<appVars, directVars, history, historyIndex, completedCrop, nextImg,
                 lastUpload, prompt, editHotspot>>

\* The awaited apiCall() settles with result (a data URL, or an Error).
Settle(call, result) ==
  LET file == IF result.ok THEN dataURLtoFile(result.value, nextImg) ELSE result
  IN IF file.ok THEN Commit(call, file.value) ELSE Fail(call, file.value)

\* What generateFilteredImage, ... resolve to or reject with.
ApiResults(op) == {generateImage(op, r) : r \in EditorResponses} \cup {TransportError}

Resolve(call) ==
  /\ call \in InFlight
  /\ \E result \in ApiResults(call.op) : Settle(call, result)

\* One of the calls in flight settles.
ResolveCall == \E call \in InFlight : Resolve(call)

\* handleImageUpload, from the StartScreen's onFileSelect
handleImageUpload ==
  /\ StartScreen
  /\ nextImg <= MaxImages
  /\ error' = NoError
  /\ history' = <<nextImg>>
  /\ historyIndex' = 0
  /\ completedCrop' = FALSE
  /\ nextImg' = nextImg + 1
  /\ lastUpload' = nextImg
  /\ editHotspot' = FALSE
  /\ UNCHANGED <<appVars, directVars, isLoading, calls, prompt>>

\* ReactCrop's onComplete
SelectCrop ==
  /\ EditorScreen
  /\ completedCrop' = TRUE
  /\ UNCHANGED <<appVars, directVars, history, historyIndex, isLoading, error, calls, nextImg,
                 lastUpload, prompt, editHotspot>>

handleApplyCrop ==
  /\ EditorScreen
  /\ IF ~completedCrop \/ ~ImgRefPresent
     THEN /\ error' = <<"Please select an area to crop.">>
          /\ UNCHANGED <<history, historyIndex, completedCrop, nextImg>>
     ELSE \E ctx \in BOOLEAN :
            IF ~ctx
            THEN /\ error' = <<"Could not process the crop.">>
                 /\ UNCHANGED <<history, historyIndex, completedCrop, nextImg>>
            ELSE LET next == addImageToHistory(nextImg, history, historyIndex)
                 IN /\ nextImg <= MaxImages
                    /\ history' = next.history
                    /\ historyIndex' = next.historyIndex
                    /\ completedCrop' = FALSE
                    /\ nextImg' = nextImg + 1
                    /\ UNCHANGED error
  /\ UNCHANGED <<appVars, directVars, isLoading, calls, lastUpload, prompt, editHotspot>>

\* handleUndo without its canUndo check.
UndoIndexUnguarded(h, i) == i - 1

\* The index handleUndo, handleRedo and handleReset set.
UndoIndex(h, i) == IF i > 0 THEN i - 1 ELSE i
RedoIndex(h, i) == IF i < Len(h) - 1 THEN i + 1 ELSE i
\* handleReset's index without its check of history.length.
ResetIndexUnguarded(h, i) == 0
ResetIndex(h, i) == IF Len(h) > 0 THEN 0 ELSE i

\* The Undo button is disabled unless canUndo, the Redo button unless canRedo, the
\* Reset button unless canUndo.
handleUndo ==
  /\ EditorScreen
  /\ canUndo
  /\ historyIndex' = UndoIndex(history, historyIndex)
  /\ editHotspot' = IF canUndo THEN FALSE ELSE editHotspot
  /\ UNCHANGED <<appVars, directVars, history, isLoading, error, completedCrop, calls, nextImg,
                 lastUpload, prompt>>

handleRedo ==
  /\ EditorScreen
  /\ canRedo
  /\ historyIndex' = RedoIndex(history, historyIndex)
  /\ editHotspot' = IF canRedo THEN FALSE ELSE editHotspot
  /\ UNCHANGED <<appVars, directVars, history, isLoading, error, completedCrop, calls, nextImg,
                 lastUpload, prompt>>

handleReset ==
  /\ EditorScreen
  /\ canUndo
  /\ historyIndex' = ResetIndex(history, historyIndex)
  /\ error' = IF Len(history) > 0 THEN NoError ELSE error
  /\ editHotspot' = IF Len(history) > 0 THEN FALSE ELSE editHotspot
  /\ UNCHANGED <<appVars, directVars, history, isLoading, completedCrop, calls, nextImg,
                 lastUpload, prompt>>

\* handleUploadNew without its setHistoryIndex(-1).
handleUploadNewKeepsIndex ==
  /\ EditorScreen
  /\ history' = << >>
  /\ error' = NoError
  /\ prompt' = << >>
  /\ editHotspot' = FALSE
  /\ UNCHANGED <<appVars, directVars, historyIndex, isLoading, completedCrop, calls, nextImg,
                 lastUpload>>

handleUploadNew ==
  /\ EditorScreen
  /\ history' = << >>
  /\ historyIndex' = -1
  /\ error' = NoError
  /\ prompt' = << >>
  /\ editHotspot' = FALSE
  /\ UNCHANGED <<appVars, directVars, isLoading, completedCrop, calls, nextImg, lastUpload>>

\* The error screen's "Try Again": setError(null)
TryAgain ==
  /\ ErrorScreen
  /\ error' = NoError
  /\ UNCHANGED <<appVars, directVars, history, historyIndex, isLoading, completedCrop, calls,
                 nextImg,
                 lastUpload, prompt, editHotspot>>

\* ------------------------------------------------ App.tsx: handlers

\* Number of the calls among S in flight that become orphan.
RECURSIVE CountOf(_, _)
CountOf(S, orphan) ==
  IF S = {} THEN 0
  ELSE LET call == CHOOSE x \in S : TRUE
       IN (IF Orphan(call) = orphan THEN calls[call] ELSE 0) + CountOf(S \ {call}, orphan)

\* EditorView unmounts: its state is gone, and the calls it has in flight will
\* settle on an unmounted component.
UnmountEditor ==
  /\ history' = << >>
  /\ historyIndex' = -1
  /\ isLoading' = FALSE
  /\ error' = NoError
  /\ completedCrop' = FALSE
  /\ calls' = [orphan \in {Orphan(c) : c \in InFlight} |-> CountOf(InFlight, orphan)]
  /\ nextImg' = 1
  /\ lastUpload' = NoImage
  /\ prompt' = << >>
  /\ editHotspot' = FALSE

\* The render that follows a change of user or route.
Render(uid, r) ==
  IF EditorMounted /\ ~EditorShown(users, uid, r)
  THEN UnmountEditor
  ELSE UNCHANGED <<editorVars, calls, nextImg,
                 lastUpload, prompt, editHotspot>>

\* The accounts that log in, and an address that is no account's.
Emails == {"alice@example.com", "charlie@example.com", "diana@example.com", "eve@example.com"}
Passwords == {"adminpassword", "password123"}

\* handleLogin(email, password), from LoginPage
handleLogin(email, password) ==
  /\ ~HasCurrentUser(users, currentUserId)
  /\ LET found == {u \in UserIds : users[u].email = email /\ users[u].password = password}
     IN IF found # {}
        THEN LET user == CHOOSE u \in found : TRUE
             IN /\ currentUserId' = user
                /\ hash' = AdminRouteEffect(users, user, route,
                                            IF users[user].role = "admin" THEN "admin" ELSE hash)
                /\ appError' = NoError
        ELSE /\ appError' = MsgInvalidLogin
             /\ UNCHANGED <<currentUserId, hash>>
  /\ UNCHANGED <<users, route, showPaywall, directVars, editorVars, calls, nextImg,
                 lastUpload, prompt, editHotspot>>

\* handleLogout, from Header
handleLogout ==
  /\ currentUserId' = None
  /\ hash' = ""
  /\ Render(None, route)
  /\ UNCHANGED <<users, route, appError, showPaywall, directVars>>

\* The hashchange listener: setRoute(window.location.hash.substring(1))
handleHashChange ==
  /\ route # hash
  /\ route' = hash
  /\ hash' = AdminRouteEffect(users, currentUserId, hash, hash)
  /\ Render(currentUserId, hash)
  /\ UNCHANGED <<users, currentUserId, appError, showPaywall, directVars>>

\* The user follows a link or edits the address: '#admin', or "Back to Editor".
Navigate(h) ==
  /\ hash' = h
  /\ UNCHANGED <<users, currentUserId, route, appError, showPaywall, directVars, editorVars,
                 calls, nextImg,
                 lastUpload, prompt, editHotspot>>

\* Users whose status the administrator toggles.
ToggleTargets == {"u004"}

\* handleToggleUserStatus(userId), from AdminDashboard
handleToggleUserStatus(userId) ==
  /\ DashboardShown(users, currentUserId, route)
  /\ users' = [u \in DOMAIN users |->
                 IF u = userId THEN [users[u] EXCEPT !.isEnabled = ~users[u].isEnabled]
                 ELSE users[u]]
  /\ UNCHANGED <<currentUserId, hash, route, appError, showPaywall, directVars, editorVars,
                 calls, nextImg,
                 lastUpload, prompt, editHotspot>>

\* PaywallModal's onClose
ClosePaywall ==
  /\ showPaywall
  /\ showPaywall' = FALSE
  /\ UNCHANGED <<users, currentUserId, hash, route, appError, directVars, editorVars, calls,
                 nextImg,
                 lastUpload, prompt, editHotspot>>

\* ------------------------------------------------ the editor and its shell

\* The operations submitted: one behind the currentImage check of its handler, one
\* behind CombinePanel.
EditorOperations == {"filter", "combine"}

\* App's state on a first visit: nothing in localStorage, no hash.
AppInit ==
  /\ users = initialUsers
  /\ currentUserId = None
  /\ hash = ""
  /\ route = ""
  /\ appError = NoError
  /\ showPaywall = FALSE

\* EditorView's state when it mounts.
EditorInit ==
  /\ history = << >>
  /\ historyIndex = -1
  /\ isLoading = FALSE
  /\ error = NoError
  /\ completedCrop = FALSE
  /\ calls = EmptyBag
  /\ nextImg = 1
  /\ lastUpload = NoImage
  /\ prompt = << >>
  /\ editHotspot = FALSE

\* No function has been called directly.
NoReturn == Throw(<< >>)
NoResponse == Response(NoFeedback, << >>, << >>)
GateIdle == gateReturn = None
ApiIdle == apiResponse = NoResponse /\ apiContext = None /\ apiResult = NoReturn
\* No canvas composed: every size is zero.
NoCanvas ==
  [direction |-> None, naturalWidth |-> 0, naturalHeight |-> 0, width |-> 0, height |-> 0,
   drawX2 |-> 0, drawY2 |-> 0]
HistoryIdle ==
  /\ lastOp = None
  /\ pendingTransactions = << >>
  /\ renderedTransactions = << >>
  /\ generated = [u \in UserIds |-> 0]
  /\ canvas = NoCanvas

Init == AppInit /\ EditorInit /\ GateIdle /\ ApiIdle /\ HistoryIdle

Next ==
  \/ \E e \in Emails, p \in Passwords : handleLogin(e, p)
  \/ handleLogout
  \/ handleHashChange
  \/ \E h \in {"", "admin"} : Navigate(h)
  \/ \E u \in ToggleTargets : handleToggleUserStatus(u)
  \/ ClosePaywall
  \/ handleImageUpload
  \/ \E op \in EditorOperations : Submit(op)
  \/ ResolveCall
  \/ SelectCrop
  \/ handleApplyCrop
  \/ handleUndo
  \/ handleRedo
  \/ handleReset
  \/ handleUploadNew
  \/ TryAgain

Spec == Init /\ [][Next]_vars

\* The endpoint answers: a call in flight resolves or rejects in the end.
SpecLive == Spec /\ WF_vars(ResolveCall)

\* ------------------------------------------------ checkUserCanGenerate, called directly

\* Largest balance of the current user the gate is called with.
MaxCredits == 12

\* The users table with the record of user u002 in any condition.
GateUsers ==
  {[initialUsers EXCEPT !["u002"] = [@ EXCEPT !.credits = c, !.isEnabled = e, !.role = r]] :
     c \in 0..MaxCredits, e \in BOOLEAN, r \in {"admin", "user"}}

InitGate ==
  /\ users \in GateUsers
  /\ currentUserId \in {None, "u002"}
  /\ hash = ""
  /\ route = ""
  /\ appError = NoError
  /\ showPaywall = FALSE
  /\ EditorInit /\ GateIdle /\ ApiIdle /\ HistoryIdle

\* checkUserCanGenerate()
CheckGate ==
  LET gate == checkUserCanGenerate(users, currentUserId, appError, showPaywall)
  IN /\ gateReturn' = IF gate.ret THEN "true" ELSE "false"
     /\ appError' = gate.error
     /\ showPaywall' = gate.showPaywall
     /\ UNCHANGED <<users, currentUserId, hash, route, pendingTransactions, sliceVars, apiResponse, apiContext, apiResult,
                    lastOp, editorVars, calls, nextImg,
                 lastUpload, prompt, editHotspot>>

NextGate == CheckGate

SpecGate == InitGate /\ [][NextGate]_vars

\* ------------------------------------------------ the generation functions, called directly

\* The candidates after the first are text only or image only, finished normally.
Candidates ==
  {Candidate(parts, f) : parts \in SeqsUpTo({TextPart, PngPart}, MaxParts),
                         f \in {"", "STOP", "SAFETY"}}
OtherCandidates == {Candidate(<<TextPart>>, "STOP"), Candidate(<<PngPart>>, "STOP")}
Feedbacks ==
  {NoFeedback, [blockReason |-> "SAFETY", blockReasonMessage |-> ""],
   [blockReason |-> "OTHER", blockReasonMessage |-> "Blocked."]}
ApiResponses ==
  {Response(f, c, t) :
     f \in Feedbacks,
     c \in {<< >>} \cup {<<first>> \o rest : first \in Candidates,
                                            rest \in SeqsUpTo(OtherCandidates, MaxCandidates - 1)},
     t \in SeqsUpTo({" ", "a"}, MaxText)}

InitApi ==
  /\ apiResponse \in ApiResponses
  /\ apiContext = None
  /\ apiResult = NoReturn
  /\ AppInit /\ EditorInit /\ GateIdle /\ HistoryIdle

\* generateEditedImage, ..., generateExpandedImage, the endpoint answering apiResponse
CallApi(op) ==
  /\ apiContext' = op
  /\ apiResult' = generateImage(op, apiResponse)
  /\ IF op = "expand"
     THEN \E direction \in Directions, w \in 1..MaxSide, h \in 1..MaxSide :
            canvas' = composeCanvas(direction, w, h)
     ELSE canvas' = NoCanvas
  /\ UNCHANGED <<appVars, pendingTransactions, renderedTransactions, generated, gateReturn, apiResponse, lastOp, editorVars, calls, nextImg,
                 lastUpload, prompt, editHotspot>>

NextApi == \E op \in Operations : CallApi(op)

SpecApi == InitApi /\ [][NextApi]_vars

\* ------------------------------------------------ the history operations, called directly

\* Number of File objects the direct calls work with.
MaxVersions == 6

\* The histories of an editor that shows an image.
InitHistory ==
  /\ \E n \in 1..(MaxVersions - 1) :
       /\ history = [k \in 1..n |-> k]
       /\ historyIndex \in 0..(n - 1)
       /\ nextImg = n + 1
  /\ lastUpload = 1
  /\ prompt = << >>
  /\ editHotspot = FALSE
  /\ isLoading = FALSE
  /\ error = NoError
  /\ completedCrop = FALSE
  /\ calls = EmptyBag
  /\ AppInit /\ GateIdle /\ ApiIdle /\ HistoryIdle

\* addImageToHistory with the current history and index, as handleApplyCrop calls it
append ==
  LET next == addImageToHistory(nextImg, history, historyIndex)
  IN /\ nextImg <= MaxVersions
     /\ history' = next.history
     /\ historyIndex' = next.historyIndex
     /\ nextImg' = nextImg + 1
     /\ lastOp' = "append"
     /\ UNCHANGED <<appVars, pendingTransactions, sliceVars, gateReturn, apiResponse, apiContext,
                    apiResult, isLoading, error, completedCrop, calls, lastUpload, prompt,
                    editHotspot>>

\* handleUndo
undo ==
  /\ historyIndex' = UndoIndex(history, historyIndex)
  /\ editHotspot' = IF canUndo THEN FALSE ELSE editHotspot
  /\ lastOp' = "undo"
  /\ UNCHANGED <<appVars, pendingTransactions, sliceVars, gateReturn, apiResponse, apiContext, apiResult,
                 history, isLoading, error, completedCrop, calls, nextImg, lastUpload, prompt>>

\* handleRedo
redo ==
  /\ historyIndex' = RedoIndex(history, historyIndex)
  /\ editHotspot' = IF canRedo THEN FALSE ELSE editHotspot
  /\ lastOp' = "redo"
  /\ UNCHANGED <<appVars, pendingTransactions, sliceVars, gateReturn, apiResponse, apiContext, apiResult,
                 history, isLoading, error, completedCrop, calls, nextImg, lastUpload, prompt>>

NextHistory == append \/ undo \/ redo

SpecHistory == InitHistory /\ [][NextHistory]_vars

\* ------------------------------------------------ EditorView's handlers, called directly

\* What is typed into a prompt field: nothing, a blank, a word.
Prompts == {<< >>, <<" ">>, <<"a">>}

\* The users of the editor: the administrator, a user without credits, and a user
\* with one credit whose account the administrator has enabled.
CoreUsers == {"u001", "u003", "u004"}

InitCore ==
  /\ users = [initialUsers EXCEPT !["u004"].isEnabled = TRUE]
  /\ currentUserId \in CoreUsers
  /\ hash = ""
  /\ route = ""
  /\ appError = NoError
  /\ showPaywall = FALSE
  /\ EditorInit /\ GateIdle /\ ApiIdle /\ HistoryIdle

\* What no handler of EditorView changes.
coreFrame == <<currentUserId, hash, route, directVars>>

\* handleImageUpload(file)
CoreUpload ==
  /\ nextImg <= MaxImages
  /\ error' = NoError
  /\ history' = <<nextImg>>
  /\ historyIndex' = 0
  /\ completedCrop' = FALSE
  /\ nextImg' = nextImg + 1
  /\ lastUpload' = nextImg
  /\ editHotspot' = FALSE
  /\ UNCHANGED <<coreFrame, users, appError, showPaywall, isLoading, calls, prompt>>

\* setPrompt(e.target.value)
setPrompt(p) ==
  /\ prompt' = p
  /\ UNCHANGED <<coreFrame, users, appError, showPaywall, editorVars, calls, nextImg,
                 lastUpload, editHotspot>>

\* handleImageClick(e), the retouch tab being the active one
handleImageClick ==
  /\ ImgRefPresent
  /\ editHotspot' = TRUE
  /\ UNCHANGED <<coreFrame, users, appError, showPaywall, editorVars, calls, nextImg,
                 lastUpload, prompt>>

\* A handler that ends at a validation: setError(message); return
Invalid(message) ==
  /\ error' = message
  /\ UNCHANGED <<appVars, directVars, history, historyIndex, isLoading, completedCrop, calls,
                 nextImg, lastUpload, prompt, editHotspot>>

\* A handler of a panel that does not call EditorView.
NotCalled == UNCHANGED vars

\* handleGenerate without its check of the prompt.
handleGenerateAnyPrompt ==
  IF currentImage = NoImage THEN Invalid(<<"No image loaded to edit.">>)
  ELSE IF ~editHotspot
  THEN Invalid(<<"Please click on the image to select an area to edit.">>)
  ELSE handleGenericGeneration("edit")

\* handleGenerate()
handleGenerate ==
  IF currentImage = NoImage THEN Invalid(<<"No image loaded to edit.">>)
  ELSE IF Trim(prompt) = << >> THEN Invalid(<<"Please enter a description for your edit.">>)
  ELSE IF ~editHotspot
  THEN Invalid(<<"Please click on the image to select an area to edit.">>)
  ELSE handleGenericGeneration("edit")

\* handleApplyFilter(filterPrompt), handleApplyAdjustment(adjustmentPrompt)
handleApplyFilter(filterPrompt) ==
  IF currentImage = NoImage THEN Invalid(<<"No image loaded.">>)
  ELSE handleGenericGeneration("filter")
handleApplyAdjustment(adjustmentPrompt) ==
  IF currentImage = NoImage THEN Invalid(<<"No image loaded.">>)
  ELSE handleGenericGeneration("adjust")

\* FilterPanel and AdjustmentPanel: the prompt they hand over is one chosen or typed.
FilterPanelApply(p) == IF p = << >> THEN NotCalled ELSE handleApplyFilter(p)
AdjustmentPanelApply(p) == IF p = << >> THEN NotCalled ELSE handleApplyAdjustment(p)

\* handleCombineImages(image1, image2, combinePrompt)
handleCombineImages == handleGenericGeneration("combine")

\* CombinePanel's handleApply, image2 being set or not
CombinePanelApply(image2, p) ==
  IF currentImage # NoImage /\ image2 /\ p # << >> THEN handleCombineImages ELSE NotCalled

\* handleExpandImage(direction, expandPrompt)
handleExpandImage(expandPrompt) ==
  IF currentImage = NoImage THEN Invalid(<<"No image loaded.">>)
  ELSE handleGenericGeneration("expand")

\* A request as the user makes it: the operation, the prompt typed in its panel and,
\* for combine, whether a second image was chosen. Edit reads prompt and editHotspot.
Requests == [op : Operations, prompt : Prompts, image2 : BOOLEAN]
CoreSubmit(req) ==
  /\ BagCardinality(calls) < MaxCalls
  /\ CASE req.op = "edit" -> handleGenerate
       [] req.op = "filter" -> FilterPanelApply(req.prompt)
       [] req.op = "adjust" -> AdjustmentPanelApply(req.prompt)
       [] req.op = "combine" -> CombinePanelApply(req.image2, req.prompt)
       [] req.op = "expand" -> handleExpandImage(req.prompt)

\* handleUndo(), handleRedo(), handleReset(), handleUploadNew()
CoreUndo ==
  /\ historyIndex' = UndoIndex(history, historyIndex)
  /\ editHotspot' = IF canUndo THEN FALSE ELSE editHotspot
  /\ UNCHANGED <<coreFrame, users, appError, showPaywall, history, isLoading, error,
                 completedCrop, calls, nextImg, lastUpload, prompt>>
CoreRedo ==
  /\ historyIndex' = RedoIndex(history, historyIndex)
  /\ editHotspot' = IF canRedo THEN FALSE ELSE editHotspot
  /\ UNCHANGED <<coreFrame, users, appError, showPaywall, history, isLoading, error,
                 completedCrop, calls, nextImg, lastUpload, prompt>>
CoreReset ==
  /\ historyIndex' = ResetIndex(history, historyIndex)
  /\ error' = IF Len(history) > 0 THEN NoError ELSE error
  /\ editHotspot' = IF Len(history) > 0 THEN FALSE ELSE editHotspot
  /\ UNCHANGED <<coreFrame, users, appError, showPaywall, history, isLoading, completedCrop,
                 calls, nextImg, lastUpload, prompt>>
CoreUploadNew ==
  /\ history' = << >>
  /\ historyIndex' = -1
  /\ error' = NoError
  /\ prompt' = << >>
  /\ editHotspot' = FALSE
  /\ UNCHANGED <<coreFrame, users, appError, showPaywall, isLoading, completedCrop, calls,
                 nextImg, lastUpload>>

NextCore ==
  \/ CoreUpload
  \/ \E p \in Prompts : setPrompt(p)
  \/ handleImageClick
  \/ \E req \in Requests : CoreSubmit(req)
  \/ ResolveCall
  \/ CoreUndo
  \/ CoreRedo
  \/ CoreReset
  \/ CoreUploadNew
  \/ TryAgain

SpecCore == InitCore /\ [][NextCore]_vars

\* ------------------------------------------------ the credits, their handlers called directly

\* Largest balance an approval leads to, and largest number of pending transactions.
MaxBalance == 20
MaxTransactions == 2

\* PaywallModal's packages, by their credits.
Packages == {1, 15}

\* The users who generate and buy.
Buyers == {"u002", "u003", "u004"}

InitCredits ==
  /\ users = initialUsers
  /\ currentUserId \in Buyers
  /\ hash = ""
  /\ route = ""
  /\ appError = NoError
  /\ showPaywall = FALSE
  /\ EditorInit /\ GateIdle /\ ApiIdle /\ HistoryIdle

\* What the handlers of the credits leave alone.
creditsFrame == <<currentUserId, hash, route, appError, showPaywall, gateReturn, apiResponse,
                  apiContext, apiResult, editorVars, calls, nextImg, lastUpload, prompt,
                  editHotspot, generated, canvas>>

\* updateUserCredits(currentUser.id, -1), the debit of a successful generation
debit ==
  /\ users' = updateUserCredits(users, currentUserId, -1)
  /\ lastOp' = IF users[currentUserId].credits - 1 < 0 THEN "clamped" ELSE "debit"
  /\ UNCHANGED <<creditsFrame, pendingTransactions, renderedTransactions>>

\* The ids of the pending transactions.
TxIds == {pendingTransactions[i].id : i \in 1..Len(pendingTransactions)}
RenderedTxIds == {renderedTransactions[i].id : i \in 1..Len(renderedTransactions)}

\* handleSubmitForReview(creditsAmount, price, screenshotFile); id is Date.now()
handleSubmitForReview(creditsAmount, id) ==
  /\ HasCurrentUser(users, currentUserId)
  /\ Len(pendingTransactions) < MaxTransactions
  /\ id \notin TxIds \cup RenderedTxIds
  /\ pendingTransactions' = Append(pendingTransactions,
                                   [id |-> id, userId |-> currentUserId,
                                    creditsAmount |-> creditsAmount])
  /\ lastOp' = "submitForReview"
  /\ UNCHANGED <<creditsFrame, users, renderedTransactions>>

\* prev.filter(tx => tx.id !== txId)
WithoutTx(txs, txId) == SelectSeq(txs, LAMBDA tx : tx.id # txId)

\* handleApproveTransaction(txId, creditsToAdd): find reads the pendingTransactions of
\* the render the handler belongs to, the two setters update the state.
handleApproveTransaction(txId, creditsToAdd) ==
  LET found == {i \in 1..Len(renderedTransactions) : renderedTransactions[i].id = txId}
  IN /\ IF found # {}
        THEN LET txToApprove ==
                   renderedTransactions[CHOOSE i \in found : \A j \in found : i <= j]
             IN /\ users[txToApprove.userId].credits + creditsToAdd <= MaxBalance
                /\ users' = updateUserCredits(users, txToApprove.userId, creditsToAdd)
                /\ pendingTransactions' = WithoutTx(pendingTransactions, txId)
        ELSE UNCHANGED <<users, pendingTransactions>>
     /\ lastOp' = "approve"
     /\ UNCHANGED <<creditsFrame, renderedTransactions>>

\* handleRejectTransaction(txId)
handleRejectTransaction(txId) ==
  /\ pendingTransactions' = WithoutTx(pendingTransactions, txId)
  /\ lastOp' = "reject"
  /\ UNCHANGED <<creditsFrame, users, renderedTransactions>>

\* App renders again: AdminDashboard and the handlers get the state's list.
RenderApp ==
  /\ renderedTransactions # pendingTransactions
  /\ renderedTransactions' = pendingTransactions
  /\ UNCHANGED <<creditsFrame, users, pendingTransactions, lastOp>>

\* AdminDashboard's buttons, one pair for each transaction of its render:
\* onApproveTransaction(tx.id, tx.creditsAmount), onRejectTransaction(tx.id)
Approve == \E i \in 1..Len(renderedTransactions) :
  handleApproveTransaction(renderedTransactions[i].id, renderedTransactions[i].creditsAmount)
Reject == \E i \in 1..Len(renderedTransactions) :
  handleRejectTransaction(renderedTransactions[i].id)
SubmitForReview == \E creditsAmount \in Packages, id \in 1..MaxTransactions :
  handleSubmitForReview(creditsAmount, id)

NextCredits == debit \/ SubmitForReview \/ Approve \/ Reject \/ RenderApp

SpecCredits == InitCredits /\ [][NextCredits]_vars

\* ------------------------------------------------ properties

Last(h) == h[Len(h)]
\* A step in which an image is appended to the history of the editor: a committed
\* generation or a crop.
AppendStep == history # << >> /\ history' # history /\ history' # << >>
\* The awaited call settles with a result that makes handleGenericGeneration throw.
\* A step in which a call in flight settles.
SettleStep == BagCardinality(calls') < BagCardinality(calls)
Fails(result) == ~result.ok \/ ~dataURLtoFile(result.value, nextImg).ok
IsAdmin(userId) == users[userId].role = "admin"
FailureShown(e) == e # NoError /\ Head(e) = "Operation failed. "

\* C1: appending an image while the index i is not at the tail truncates the history
\* to its elements 0..i, then appends, and the index becomes the last position: the
\* history after any append step is the history before it cut at the index it had
\* before the step, plus the new image ([A,B,C] at 2, undo, commit of D: [A,B,D] at 2).
C1_AppendTruncatesAtIndex ==
  [][AppendStep =>
       /\ history' = Append(SubSeq(history, 1, historyIndex + 1), Last(history'))
       /\ historyIndex' = Len(history') - 1]_vars

\* C2: in every reachable state of the editor historyIndex is -1 when the history is
\* empty and lies in 0..length-1 when it is not, late completions included.
C2_HistoryIndexInRange ==
  IF history = << >> THEN historyIndex = -1 ELSE historyIndex \in 0..(Len(history) - 1)
\* A completion is about to arrive after the history was changed under its call.
C2_Witness ==
  \E call \in InFlight :
    /\ call.mounted
    /\ call.history # history
    /\ call.historyIndex = Len(call.history) - 1
    /\ historyIndex < Len(history) - 1

\* C3: every successful generation submitted by a non-admin user decreases that
\* user's balance by exactly one, two generations in flight together for a user with
\* one credit included.
C3_SuccessDebitsExactlyOne ==
  [][\A call \in InFlight : \A result \in ApiResults(call.op) :
       (Settle(call, result) /\ ~Fails(result) /\ ~IsAdmin(call.userId))
         => users'[call.userId].credits = users[call.userId].credits - 1]_vars

\* C4: for every generation request that resolves, the append to the history and the
\* debit happen as a pair: when a non-admin's request has resolved, either the image
\* was appended and one credit debited, or neither; a request that resolves after
\* logout or unmount included.
C4_AppendAndDebitPaired ==
  [][\A call \in InFlight : \A result \in ApiResults(call.op) :
       (Settle(call, result) /\ ~IsAdmin(call.userId))
         => ((history' # history /\ Last(history') = nextImg)
               <=> users'[call.userId].credits = users[call.userId].credits - 1)]_vars

\* C5: when a generation call fails (the call or the classification throws, or the
\* decoding of the payload throws), the history, the history index and every user's
\* balance are what they were immediately before the failure was handled.
\* (Stated as: a step that settles a call and changes one of them is not the
\* handling of a failure.)
C5_FailureChangesNothing ==
  [][/\ (SettleStep /\ <<history, historyIndex, users>>' # <<history, historyIndex, users>>)
          => \A call \in InFlight : \A result \in ApiResults(call.op) :
               Fails(result) => ~Settle(call, result)
     /\ (FailureShown(error') /\ error' # error)
          => UNCHANGED <<history, historyIndex, users>>]_vars
\* A standard user's generation failed at the decoding: the balance and the history
\* are there still.
C5_Witness ==
  /\ error = <<"Operation failed. ",
               "Failed to execute 'atob': The string to be decoded is not correctly encoded.">>
  /\ currentUserId = "u004"
  /\ users["u004"].credits = 1
  /\ history # << >>
  /\ calls = EmptyBag

\* C6: the gate denies as not-logged-in when there is no current user; otherwise as
\* disabled when isEnabled is false, whatever the role and balance; otherwise as
\* out-of-credits when the role is not admin and credits <= 0; otherwise it permits.
\* A standard user with 0 credits is denied, an enabled admin is permitted at 0.
GateDecision ==
  IF currentUserId = None THEN "not-logged-in"
  ELSE IF ~users[currentUserId].isEnabled THEN "disabled"
  ELSE IF users[currentUserId].role # "admin" /\ users[currentUserId].credits <= 0
  THEN "out-of-credits"
  ELSE "permitted"
C6_GateDecision ==
  gateReturn # None =>
    CASE GateDecision = "not-logged-in" ->
           gateReturn = "false" /\ appError = MsgNotLoggedIn /\ ~showPaywall
      [] GateDecision = "disabled" ->
           gateReturn = "false" /\ appError = MsgDisabled /\ ~showPaywall
      [] GateDecision = "out-of-credits" ->
           gateReturn = "false" /\ appError = NoError /\ showPaywall
      [] GateDecision = "permitted" ->
           gateReturn = "true" /\ appError = NoError /\ ~showPaywall
\* The gate was called for an enabled admin whose balance is 0.
C6_Witness ==
  /\ gateReturn = "true"
  /\ currentUserId = "u002"
  /\ users["u002"].role = "admin"
  /\ users["u002"].isEnabled
  /\ users["u002"].credits = 0

\* C7: when the gate denies at the moment an action is submitted, no generation call
\* is issued for it, the editor does not enter the loading state, and the history
\* and all balances are unchanged.
GatePermits == checkUserCanGenerate(users, currentUserId, appError, showPaywall).ret
C7_DenialIssuesNothing ==
  [][~GatePermits =>
       /\ BagCardinality(calls') <= BagCardinality(calls)
       /\ isLoading' => isLoading
       /\ \A op \in EditorOperations :
            Submit(op) => UNCHANGED <<history, historyIndex, users, calls, isLoading>>]_vars
\* A user without credits submitted: the paywall is up and nothing else happened.
C7_Witness ==
  /\ showPaywall
  /\ currentUserId = "u003"
  /\ history # << >>
  /\ ~isLoading
  /\ calls = EmptyBag
  /\ users = initialUsers

\* What a response carries.
Blocked(r) == r.promptFeedback.blockReason # ""
FirstParts(r) == IF r.candidates = << >> THEN << >> ELSE r.candidates[1].parts
ImagePresent(r) == \E i \in 1..Len(FirstParts(r)) : FirstParts(r)[i].hasInlineData
FinishReason(r) == IF r.candidates = << >> THEN "" ELSE r.candidates[1].finishReason
\* The classes of what a generation function returns or throws.
Success(result) == result.ok /\ Head(result.value) = "data:"
PolicyBlocked(result, r) ==
  /\ ~result.ok
  /\ Head(result.value) = "Request was blocked. Reason: "
  /\ result.value[2] = r.promptFeedback.blockReason
AbnormalCompletion(result) ==
  ~result.ok /\ Head(result.value) = "Image generation for "
NoImageReturned(result) ==
  ~result.ok /\ Head(result.value) = "The AI model did not return an image for the "

\* C8: a response that carries a prompt block reason is classified as PolicyBlocked,
\* an error naming the block reason, also when it carries an image: the block check
\* precedes the image extraction for every response.
C8_BlockPrecedesImage ==
  (apiContext # None /\ Blocked(apiResponse)) => PolicyBlocked(apiResult, apiResponse)
C8_Witness ==
  /\ apiContext # None
  /\ Blocked(apiResponse)
  /\ ImagePresent(apiResponse)
  /\ ~apiResult.ok

\* C9: for every unblocked response the result is success when an image payload is
\* present (among the parts handleApiResponse scans), whatever the finish reason;
\* without an image it is AbnormalCompletion when the finish reason is present and not
\* STOP, and NoImageReturned when it is absent or STOP; the same for all five
\* operations, whose errors name their own context.
C9_Classification ==
  (apiContext # None /\ ~Blocked(apiResponse)) =>
    IF ImagePresent(apiResponse)
    THEN Success(apiResult)
    ELSE IF FinishReason(apiResponse) \notin {"", "STOP"}
    THEN AbnormalCompletion(apiResult) /\ apiResult.value[2] = Context(apiContext)
    ELSE NoImageReturned(apiResult) /\ apiResult.value[2] = Context(apiContext)
\* An image came with the finish reason SAFETY, and was returned.
C9_Witness ==
  /\ apiContext = "expand"
  /\ ~Blocked(apiResponse)
  /\ ImagePresent(apiResponse)
  /\ FinishReason(apiResponse) = "SAFETY"
  /\ apiResult.ok

\* C10: over all sequences of append, undo and redo the current image after each call
\* is the image appended or navigated to; undo does nothing at index 0 and otherwise
\* decrements the index, redo does nothing at index length-1 and otherwise increments
\* it; canUndo is index > 0 and canRedo is index < length-1.
C10_HistoryNavigation ==
  [][/\ lastOp' = "append" => currentImage' = nextImg
     /\ lastOp' = "undo" =>
          /\ historyIndex' = (IF historyIndex = 0 THEN 0 ELSE historyIndex - 1)
          /\ currentImage' = history[historyIndex' + 1]
     /\ lastOp' = "redo" =>
          /\ historyIndex' =
               (IF historyIndex = Len(history) - 1 THEN historyIndex ELSE historyIndex + 1)
          /\ currentImage' = history[historyIndex' + 1]
     /\ canUndo' <=> historyIndex' > 0
     /\ canRedo' <=> historyIndex' < Len(history') - 1]_vars
\* undo was called at the first of several versions.
C10_Witness ==
  /\ lastOp = "undo"
  /\ historyIndex = 0
  /\ Len(history) >= 2
  /\ currentImage = history[1]

\* C11: in every reachable state with a non-empty history the element at index 0 is
\* the image of the most recent upload, also when a generation submitted before an
\* Upload New or a new upload resolves afterwards.
C11_FirstIsLastUpload == history # << >> => history[1] = lastUpload

\* A call in flight whose sibling, submitted from the same history state, has already
\* committed: the history is what that commit made of the captured one.
SiblingCommitted(call) ==
  /\ call.mounted
  /\ history # << >>
  /\ history # call.history
  /\ history = addImageToHistory(Last(history), call.history, call.historyIndex).history
  /\ historyIndex = Len(history) - 1

\* C12: when two submissions run concurrently from the same history state and both
\* succeed, the one that resolves last makes its result the current image, leaves the
\* index within bounds, and, for a non-admin, debits one credit as the first one did.
C12_LastWriteWins ==
  [][\A call \in InFlight : \A result \in ApiResults(call.op) :
       (SettleStep /\ SiblingCommitted(call) /\ Settle(call, result) /\ ~Fails(result))
         => /\ currentImage' = nextImg
            /\ historyIndex' >= 0 /\ historyIndex' < Len(history')
            /\ ~IsAdmin(call.userId)
                 => users'[call.userId].credits = users[call.userId].credits - 1]_vars

\* C13: a generation in flight cannot be cancelled: whatever the user did while it was
\* in flight (undo, redo, reset, Upload New, a new upload, logout), when the call
\* succeeds its result is appended to the history and becomes the current image.
C13_InFlightResultApplied ==
  [][\A call \in InFlight : \A result \in ApiResults(call.op) :
       (SettleStep /\ Settle(call, result) /\ ~Fails(result))
         => /\ history' # history
            /\ currentImage' = nextImg]_vars

\* C14: the submit controls being usable only while isLoading is false, at most one
\* generation call is in flight in every reachable state, and the isLoading flag of
\* the editor on screen is true whenever a call started from the editor is in flight.
C14_SingleCallInFlight ==
  /\ BagCardinality(calls) <= 1
  /\ (EditorMounted /\ calls # EmptyBag) => isLoading

\* A request that is obviously incomplete, by operation.
Incomplete(req) ==
  CASE req.op = "edit" -> currentImage = NoImage \/ Trim(prompt) = << >> \/ ~editHotspot
    [] req.op \in {"filter", "adjust"} -> currentImage = NoImage \/ req.prompt = << >>
    [] req.op = "combine" -> ~req.image2 \/ req.prompt = << >>
    [] req.op = "expand" -> currentImage = NoImage

C16_BalanceNeverNegative ==
  /\ \A u \in UserIds : users[u].credits >= 0
  /\ lastOp = "clamped" => users[currentUserId].credits = 0

\* A debit was made on a balance of zero, after a purchase was approved and spent.
C16_Witness ==
  /\ lastOp = "clamped"
  /\ users[currentUserId].credits = 0
  /\ users[currentUserId].credits # initialUsers[currentUserId].credits

\* The two denials of the gate for the logged-in user.
DisabledAccount == HasCurrentUser(users, currentUserId) /\ ~users[currentUserId].isEnabled
OutOfCredits ==
  /\ HasCurrentUser(users, currentUserId)
  /\ users[currentUserId].isEnabled
  /\ users[currentUserId].role # "admin"
  /\ users[currentUserId].credits <= 0

\* C17: every denial and every failure is surfaced to the acting user: a submission
\* denied for lack of credits opens the paywall and sets no error message; one denied
\* because the account is disabled, and every generation that fails, leaves an error
\* message on the screen of the editor the logged-in user sees.
C17_DenialsAndFailuresSurfaced ==
  [][/\ \A op \in EditorOperations :
          (currentImage # NoImage /\ Submit(op))
            => /\ OutOfCredits => (showPaywall' /\ appError' = NoError /\ error' = NoError)
               /\ DisabledAccount => (EditorMounted' /\ error' # NoError)
     /\ SettleStep =>
          \A call \in InFlight : \A result \in ApiResults(call.op) :
            (Settle(call, result) /\ Fails(result))
              => (EditorMounted' /\ FailureShown(error'))]_vars

\* C18: a successful Edit commit clears the stored hotspot (setEditHotspot(null) and
\* setDisplayHotspot(null) go together), and an Edit submitted without a hotspot
\* issues no call: a second Edit needs a new click on the image.
C18_HotspotIsOneShot ==
  [][/\ SettleStep =>
          \A call \in InFlight : \A result \in ApiResults(call.op) :
            (call.op = "edit" /\ call.mounted /\ Settle(call, result) /\ ~Fails(result))
              => ~editHotspot'
     /\ (~editHotspot /\ \E req \in Requests : req.op = "edit" /\ CoreSubmit(req))
          => calls' = calls]_vars

\* At the tip of a history that holds a committed result, the prompt still there and
\* no hotspot stored, an Edit was refused for its missing hotspot.
C18_Witness ==
  /\ Len(history) >= 2
  /\ historyIndex = Len(history) - 1
  /\ ~editHotspot
  /\ Trim(prompt) # << >>
  /\ calls = EmptyBag
  /\ error = <<"Please click on the image to select an area to edit.">>

\* C19: reset on a non-empty history sets the index to 0 and leaves the history as it
\* is, so that a redo right after it, on a history of two or more, makes the second
\* element current; reset on an empty history changes nothing.
C19_ResetKeepsHistory ==
  [][/\ CoreReset => /\ history' = history
                      /\ IF history # << >>
                         THEN historyIndex' = 0 /\ currentImage' = history[1]
                         ELSE UNCHANGED vars
     /\ (CoreRedo /\ historyIndex = 0 /\ Len(history) >= 2)
          => (history' = history /\ currentImage' = history[2])]_vars

\* A history of three with its first element current, as reset leaves it, the redo
\* button enabled.
C19_Witness ==
  /\ Len(history) = 3
  /\ historyIndex = 0
  /\ canRedo
  /\ ~canUndo

\* The number of external calls in flight.
InFlightCount == BagCardinality(calls)

\* The gate lets the logged-in user generate.
Accepted ==
  /\ currentImage # NoImage
  /\ HasCurrentUser(users, currentUserId)
  /\ checkUserCanGenerate(users, currentUserId, appError, showPaywall).ret

\* C20: there are no retries: a submission accepted by validation and the gate issues
\* exactly one external call, calls are issued by submissions only, and when a call
\* settles, failed or not, it is gone and no call is issued in its place.
C20_NoRetries ==
  [][/\ calls' # calls
          => \/ InFlightCount' = InFlightCount - 1
             \/ InFlightCount' = InFlightCount /\ ~EditorMounted'
             \/ InFlightCount' = InFlightCount + 1 /\ \E op \in EditorOperations : Submit(op)
     /\ calls' = calls
          => /\ Accepted => ~\E op \in EditorOperations : Submit(op)
             /\ <<error, users, history>>' # <<error, users, history>>
                  => \A call \in InFlight : \A result \in ApiResults(call.op) :
                       ~Settle(call, result)]_vars

\* A call has failed: its message is on the screen, nothing is loading and nothing
\* is in flight.
C20_Witness ==
  /\ EditorMounted
  /\ FailureShown(error)
  /\ ~isLoading
  /\ calls = EmptyBag

\* C21: the canvas composed for an expansion of a W by H source is W*1.5 by H (left,
\* right) or W by H*1.5 (top, bottom); the original is drawn at x = W*0.5 for left, at
\* y = H*0.5 for top and at 0 otherwise, flush against the edge opposite to the
\* expansion; the other dimension and offset are unchanged.
C21_ExpandCanvas ==
  canvas # NoCanvas =>
    LET W == canvas.naturalWidth
        H == canvas.naturalHeight
        horizontal == canvas.direction \in {"left", "right"}
    IN /\ 2 * canvas.width = IF horizontal THEN 3 * W ELSE 2 * W
       /\ 2 * canvas.height = IF horizontal THEN 2 * H ELSE 3 * H
       /\ canvas.drawX2 = IF canvas.direction = "left" THEN W ELSE 0
       /\ canvas.drawY2 = IF canvas.direction = "top" THEN H ELSE 0
       /\ canvas.direction = "left" => canvas.drawX2 + 2 * W = 2 * canvas.width
       /\ canvas.direction = "top" => canvas.drawY2 + 2 * H = 2 * canvas.height

\* The message of the error a settling call throws: the client's, or the decoder's.
Thrown(result) ==
  IF result.ok THEN dataURLtoFile(result.value, nextImg).value ELSE result.value

\* C22: when a generation fails, the error message stored for display equals the
\* message of the error the generation client threw, unmodified.
C22_FailureReasonUnmodified ==
  [][SettleStep =>
       \A call \in InFlight : \A result \in ApiResults(call.op) :
         (call.mounted /\ Fails(result) /\ Settle(call, result))
           => error' = Thrown(result)]_vars

\* C23: for every unblocked response with an embedded image payload anywhere in it,
\* in any candidate and any part, the call succeeds and returns the data URL built
\* from that payload's mime type and base64 data.
C23_AnyImageIsSuccess ==
  (apiContext # None /\ ~Blocked(apiResponse)
     /\ \E c \in 1..Len(apiResponse.candidates) :
          \E p \in 1..Len(apiResponse.candidates[c].parts) :
            apiResponse.candidates[c].parts[p].hasInlineData)
    => /\ apiResult.ok
       /\ \E c \in 1..Len(apiResponse.candidates) :
            \E p \in 1..Len(apiResponse.candidates[c].parts) :
              LET part == apiResponse.candidates[c].parts[p]
              IN /\ part.hasInlineData
                 /\ apiResult.value = <<"data:", part.mimeType, ";base64,", part.data>>

\* C24: a standard user never obtains more successful generations than credits
\* granted: the number of the user's calls that resolved successfully is at most the
\* initial balance plus the credits of approved transactions (none is approved
\* here), logout and login while a call is in flight included.
C24_GenerationsWithinCredits ==
  \A u \in UserIds :
    users[u].role # "admin" => generated[u] <= initialUsers[u].credits

\* C25: a stored hotspot was selected on the current image: every step that changes
\* the current image (undo, redo, reset, upload, Upload New, a commit of any
\* operation) leaves no hotspot stored.
C25_HotspotOnCurrentImage ==
  [][currentImage' # currentImage => ~editHotspot']_vars

\* C26: each pending transaction credits its user at most once: an approve of a
\* transaction that is no longer pending (a second approve issued before the list
\* is rendered again included) adds nothing to any balance, and after an approve or
\* a reject the transaction is not pending.
C26_CreditedAtMostOnce ==
  [][\A i \in 1..Len(renderedTransactions) :
       LET tx == renderedTransactions[i]
       IN /\ (tx.id \notin TxIds /\ handleApproveTransaction(tx.id, tx.creditsAmount))
               => users' = users
          /\ (handleApproveTransaction(tx.id, tx.creditsAmount) \/ handleRejectTransaction(tx.id))
               => \A j \in 1..Len(pendingTransactions') : pendingTransactions'[j].id # tx.id]_vars

\* C27: the debit of a successful generation goes to the user who submitted it, not
\* to whoever is logged in when it resolves: the submitter's balance goes down by one
\* (it stays at zero if it was zero), no other user's record changes, and a call
\* whose editor is gone leaves the history of the editor on screen as it is.
C27_DebitGoesToSubmitter ==
  [][SettleStep =>
       \A call \in InFlight : \A result \in ApiResults(call.op) :
         (~Fails(result) /\ ~IsAdmin(call.userId) /\ Settle(call, result))
           => /\ \A u \in UserIds \ {call.userId} : users'[u] = users[u]
              /\ users'[call.userId].credits = Max(0, users[call.userId].credits - 1)
              /\ ~call.mounted => UNCHANGED <<history, historyIndex>>]_vars

\* diana's call is in flight, its editor gone, while charlie is logged in and has
\* an image in his editor.
C27_Witness ==
  /\ currentUserId = "u003"
  /\ history # << >>
  /\ \E call \in InFlight : call.userId = "u004" /\ ~call.mounted

\* C28: every submission that starts loading eventually stops: the external call
\* resolving or rejecting in the end, isLoading returns to false on both paths.
C28_LoadingEnds == isLoading ~> ~isLoading

\* The editor is loading: its call is in flight.
C28_Witness ==
  /\ EditorMounted
  /\ isLoading
  /\ \E call \in InFlight : call.mounted

\* C29: submitting a purchase for review changes no balance; approving a pending
\* transaction adds exactly its creditsAmount to the balance of its userId, changes no
\* other user and removes only that transaction; rejecting removes only that
\* transaction and changes no balance; approving an id that is not pending changes
\* nothing.
C29_TransactionFrame ==
  [][/\ SubmitForReview => users' = users
     /\ \A i \in 1..Len(renderedTransactions) :
          LET tx == renderedTransactions[i]
          IN /\ handleApproveTransaction(tx.id, tx.creditsAmount)
                  => IF tx.id \in TxIds
                     THEN /\ users'[tx.userId].credits
                               = users[tx.userId].credits + tx.creditsAmount
                          /\ \A u \in UserIds \ {tx.userId} : users'[u] = users[u]
                          /\ pendingTransactions' = WithoutTx(pendingTransactions, tx.id)
                     ELSE UNCHANGED <<users, pendingTransactions>>
             /\ handleRejectTransaction(tx.id)
                  => /\ users' = users
                     /\ pendingTransactions' = WithoutTx(pendingTransactions, tx.id)]_vars

\* C30: the admin dashboard is rendered only while the current user has role admin:
\* in every reachable state a user of role user or a logged-out visitor is not shown
\* the dashboard, whatever the route, and so cannot use its controls.
C30_DashboardOnlyForAdmin ==
  /\ DashboardShown(users, currentUserId, route)
       => (currentUserId # None /\ users[currentUserId].role = "admin")
  /\ (currentUserId = None \/ users[currentUserId].role # "admin")
       => ~ENABLED (\E u \in ToggleTargets : handleToggleUserStatus(u))

\* A standard user has put #admin into the address: the route is admin and the
\* editor is what is rendered.
C30_Witness ==
  /\ currentUserId = "u003"
  /\ route = "admin"
  /\ EditorMounted
  /\ ~DashboardShown(users, currentUserId, route)

====
